---- MODULE Spec2Model ----
(***************************************************************************)
(* A state-machine model of the STOMP session core, src/src/session.rs:    *)
(* the Session struct, its mio Handler callbacks (readable, timeout), the  *)
(* dispatch of inbound frames, the outbound send path and reconnect.       *)
(*                                                                         *)
(* The reactor is single threaded: a callback runs to completion before    *)
(* the next one starts.  pc says where the reactor thread is:              *)
(*   "idle"      between events (or before listen())                       *)
(*   "drain"     inside readable(), in the read_transmission loop          *)
(*   "reconnect" inside reconnect(), in the connect loop                   *)
(*   "replay"    inside reconnect(), in the `for subscribe_frame` loop     *)
(*   "panicked"  the thread has panicked, the session is gone              *)
(* The only thing that moves while a callback runs is the remote end of    *)
(* the socket (SocketDies).                                                *)
(***************************************************************************)
EXTENDS Integers, Sequences, FiniteSets, TLC

\* ---------------------------------------------------------------- bounds
\* calls the user makes on the session (listen() apart)
MaxOps == 2
\* the largest negotiated tx interval (ms) of the timed specification
MaxTx == 4
\* how far (ms) the clock of the timed specification runs
MaxClock == 6
\* number of successful reconnects explored
MaxConn == 1
\* failed connect attempts explored within one reconnect
MaxAttempts == 1
\* transmissions one read can add to the frame buffer
MaxRead == 1

\* ------------------------------------------------------ program constants
\* GRACE_PERIOD_MULTIPLIER
GRACE_PERIOD_MULTIPLIER == 2
\* delay_between_attempts
DelayBetweenAttempts == 3000

NoValue == "<none>"

\* negotiated heartbeat intervals handed to Session::new, as <<tx, rx>>
HeartbeatMs == { <<0, 0>>, <<1000, 1000>> }
AckModes == {"Auto", "Client", "ClientIndividual"}
\* the subscriptions the user asks for: <<destination, ack mode, with receipt>>
SubscriptionRequests ==
  { <<"/q/a", "Auto", TRUE>>, <<"/q/b", "Client", FALSE>>,
    <<"/q/c", "ClientIndividual", FALSE>> }
AckOrNack == {"Ack", "Nack"}

\* ---------------------------------------------------------------- strings
Digit(d) ==
  CASE d = 0 -> "0" [] d = 1 -> "1" [] d = 2 -> "2" [] d = 3 -> "3"
    [] d = 4 -> "4" [] d = 5 -> "5" [] d = 6 -> "6" [] d = 7 -> "7"
    [] d = 8 -> "8" [] d = 9 -> "9"

RECURSIVE U32ToString(_)
\* u32::to_string: the decimal rendering of the counter
U32ToString(n) ==
  IF n < 10 THEN Digit(n) ELSE U32ToString(n \div 10) \o Digit(n % 10)

\* ----------------------------------------------------------------- frames
\* A frame is a command and an ordered header list of <<key, value>> pairs.
Header(k, v) == <<k, v>>
Frame(command, headers) == [command |-> command, headers |-> headers]

\* HeaderList typed accessors: the first header with the key, or None
GetHeader(headers, key) ==
  LET hits == SelectSeq(headers, LAMBDA h : h[1] = key)
  IN IF Len(hits) = 0 THEN NoValue ELSE hits[1][2]

HasHeader(headers, key) == GetHeader(headers, key) # NoValue

AckModeText(mode) ==
  CASE mode = "Auto" -> "auto"
    [] mode = "Client" -> "client"
    [] mode = "ClientIndividual" -> "client-individual"

FrameSubscribe(id, destination, ack_mode) ==
  Frame("SUBSCRIBE", << Header("destination", destination),
                        Header("id", id),
                        Header("ack", AckModeText(ack_mode)) >>)
FrameUnsubscribe(id) == Frame("UNSUBSCRIBE", << Header("id", id) >>)
FrameAck(ack_id) == Frame("ACK", << Header("id", ack_id) >>)
FrameNack(ack_id) == Frame("NACK", << Header("id", ack_id) >>)
FrameDisconnect == Frame("DISCONNECT", << >>)
FrameSend(destination) == Frame("SEND", << Header("destination", destination) >>)
FrameBegin(tx_id) == Frame("BEGIN", << Header("transaction", tx_id) >>)

NoFrame == Frame("", << >>)
\* the single "\n" byte send_heartbeat writes
HeartBeatByte == Frame("\n", << >>)

\* Transmission: HeartBeat | CompleteFrame(frame) | ConnectionClosed
Transmission(kind, frame) == [kind |-> kind, frame |-> frame]

\* ------------------------------------------------------------------- maps
EmptyMap == << >>
MapInsert(m, k, v) == [x \in (DOMAIN m) \cup {k} |-> IF x = k THEN v ELSE m[x]]
MapRemove(m, k) == [x \in (DOMAIN m) \ {k} |-> m[x]]

\* a boxed handler, named by the connection it was stored under and its key
HandlerBox(conn, key) == [conn |-> conn, key |-> key]

VARIABLES
  self,          \* the Session struct
  alive,         \* whether the remote end of self.connection is still there
  registered,    \* the connection registered with the event loop, or -1
  listening,     \* listen() has entered the event loop
  txTimers,      \* pending StompTimeout::SendHeartBeat timeouts
  rxTimers,      \* handles of the pending StompTimeout::ReceiveHeartBeat timeouts
  pc,            \* where the reactor thread is
  panic,         \* the panic message, "" while the thread lives
  returnTo,      \* where reconnect() returns to: "idle" or "drain"
  attempts,      \* failed connect attempts of the running reconnect()
  slept,         \* ms the running reconnect() has spent in thread::sleep_ms
  replayQueue,   \* the SUBSCRIBE frames reconnect() has still to send
  wire,          \* frames written to the socket by the running (or last) operation
  last,          \* what the last operation did (history)
  pre,           \* the session as it was when the running reconnect() started
  wireLive,      \* ids with a SUBSCRIBE written and no UNSUBSCRIBE written after it
  apiLive,       \* ids with a SUBSCRIBE written and no unsubscribe(id) call after it
  fired,         \* how often each receipt handler was invoked
  lastId,        \* the last id each generator returned, -1 before the first
  ops,           \* the user's calls so far
  clock          \* the reactor's clock and what the send timer did on it

vars == << self, alive, registered, listening, txTimers, rxTimers, pc, panic,
           returnTo, attempts, slept, replayQueue, wire, last, pre, wireLive, apiLive,
           fired, lastId, ops, clock >>

\* --------------------------------------------------------- Session::new
\* ((rx_heartbeat_ms as f64) * GRACE_PERIOD_MULTIPLIER) as u32; the intervals
\* of HeartbeatMs stay far below the u32 range, where the cast is exact
ModifiedRxHeartbeatMs(rx) == rx * GRACE_PERIOD_MULTIPLIER

\* (tx_heartbeat_ms as f64 / 2f64) as u64: the cast truncates
HalvedTxHeartbeatMs(tx) == tx \div 2

NoTimeout == -1

SessionNew(connection, tx_heartbeat_ms, rx_heartbeat_ms) ==
  [ connection             |-> connection,
    frame_buffer           |-> << >>,
    next_transaction_id    |-> 0,
    next_subscription_id   |-> 0,
    next_receipt_id        |-> 0,
    rx_heartbeat_ms        |-> ModifiedRxHeartbeatMs(rx_heartbeat_ms),
    rx_heartbeat_timeout   |-> NoTimeout,
    tx_heartbeat_ms        |-> HalvedTxHeartbeatMs(tx_heartbeat_ms),
    subscriptions          |-> EmptyMap,
    receipt_handlers       |-> EmptyMap,
    error_callback         |-> "default",
    frame_send_callback    |-> "default",
    frame_receive_callback |-> "default" ]

\* SessionBuilder::start on success: a fresh session on a fresh connection
SessionBuilderStart(connection, tx, rx) == SessionNew(connection, tx, rx)

\* ------------------------------------------------------------ id counters
\* `self.next_*_id += 1` on a u32.  The counters of this model stay below
\* MaxOps, far from 2^32, where a release build wraps and a debug build panics.
Increment(n) == n + 1

GenerateTransactionId(s) ==
  [id |-> s.next_transaction_id,
   s  |-> [s EXCEPT !.next_transaction_id = Increment(@)]]

GenerateSubscriptionId(s) ==
  [id |-> s.next_subscription_id,
   s  |-> [s EXCEPT !.next_subscription_id = Increment(@)]]

GenerateReceiptId(s) ==
  [id |-> s.next_receipt_id,
   s  |-> [s EXCEPT !.next_receipt_id = Increment(@)]]

\* ------------------------------------------------------- heartbeat timers
\* A timer state is the session with the event loop's pending receive timeouts.
TimerState(s, rx) == [s |-> s, rx |-> rx]

\* EventLoop::timeout_ms hands out the handle of a free timer slot.  The
\* session stores every handle it is given, so a slot is only handed out again
\* when the handle it remembers for it is overwritten by the new one.
FreshTimeout(t) == CHOOSE h \in 0..Cardinality(t.rx) : h \notin t.rx

\* faulty variant: the pending timeout is left in the event loop
ClearRxHeartbeatTimeoutKeepingTimer(t) == t

\* the handle stays in rx_heartbeat_timeout after it was cleared
ClearRxHeartbeatTimeout(t) ==
  IF t.s.rx_heartbeat_timeout # NoTimeout
  THEN [t EXCEPT !.rx = @ \ {t.s.rx_heartbeat_timeout}]
  ELSE t

RegisterRxHeartbeatTimeout(t) ==
  IF t.s.rx_heartbeat_ms <= 0 THEN t
  ELSE LET h == FreshTimeout(t)
       IN [s |-> [t.s EXCEPT !.rx_heartbeat_timeout = h], rx |-> t.rx \cup {h}]

ResetRxHeartbeatTimeout(t) ==
  RegisterRxHeartbeatTimeout(ClearRxHeartbeatTimeout(t))

\* the pending send timeouts after register_tx_heartbeat_timeout
RegisterTxHeartbeatTimeout(s, tx) ==
  IF s.tx_heartbeat_ms <= 0 THEN tx ELSE tx + 1

\* ------------------------------------------------------------------ hooks
\* The default hooks only log.  A user hook may change the frame: the one
\* modelled here adds a header of its own.
ApplyHook(callback, frame) ==
  IF callback = "default" THEN frame
  ELSE [frame EXCEPT !.headers = Append(@, Header("x-hook", callback))]

\* ------------------------------------------------------------------ send
\* faulty variant: the frame is written as it came, the hook runs afterwards
SendBeforeHook(s, frame, up) ==
  [ frame  |-> frame,
    hook   |-> 1,
    ok     |-> up,
    result |-> IF up THEN "ok" ELSE "connection_lost" ]

\* Session::send: the pre-send hook, then the write; `up` is whether the
\* socket still takes the write.  calls counts the hook's invocations.
Send(s, frame, up) ==
  [ frame  |-> ApplyHook(s.frame_send_callback, frame),
    hook   |-> 1,
    ok     |-> up,
    result |-> IF up THEN "ok" ELSE "connection_lost" ]

\* what a send adds to the wire
Written(out) == IF out.ok THEN << out.frame >> ELSE << >>

\* --------------------------------------------------------------- dispatch
\* The outcome of handling one inbound frame: the panic message ("" when
\* none), the session afterwards, the user handlers invoked in order and
\* the sends made in order.
Outcome(msg, s, calls, sends) ==
  [panic |-> msg, s |-> s, calls |-> calls, sends |-> sends]

\* one invocation of a user handler and what it returned ("" for a unit handler)
Call(kind, handler, returned) ==
  [kind |-> kind, handler |-> handler, returned |-> returned]

\* faulty variant: the handler is looked up and left in the registry
HandleReceiptKeepingHandler(s, frame) ==
  LET receipt_id == GetHeader(frame.headers, "receipt-id")
  IN IF receipt_id = NoValue
     THEN Outcome("Received RECEIPT frame without a receipt-id", s, << >>, << >>)
     ELSE IF receipt_id \notin DOMAIN s.receipt_handlers
     THEN Outcome("Received unexpected RECEIPT", s, << >>, << >>)
     ELSE Outcome("", s, << Call("receipt", s.receipt_handlers[receipt_id], "") >>,
                  << >>)

\* faulty variant: a RECEIPT nobody waits for is dropped
HandleReceiptIgnoringUnknown(s, frame) ==
  LET receipt_id == GetHeader(frame.headers, "receipt-id")
  IN IF receipt_id = NoValue
     THEN Outcome("Received RECEIPT frame without a receipt-id", s, << >>, << >>)
     ELSE IF receipt_id \notin DOMAIN s.receipt_handlers
     THEN Outcome("", s, << >>, << >>)
     ELSE Outcome("",
                  [s EXCEPT !.receipt_handlers = MapRemove(@, receipt_id)],
                  << Call("receipt", s.receipt_handlers[receipt_id], "") >>,
                  << >>)

HandleReceipt(s, frame) ==
  LET receipt_id == GetHeader(frame.headers, "receipt-id")
  IN IF receipt_id = NoValue
     THEN Outcome("Received RECEIPT frame without a receipt-id", s, << >>, << >>)
     ELSE IF receipt_id \notin DOMAIN s.receipt_handlers
     THEN Outcome("Received unexpected RECEIPT", s, << >>, << >>)
     ELSE Outcome("",
                  [s EXCEPT !.receipt_handlers = MapRemove(@, receipt_id)],
                  << Call("receipt", s.receipt_handlers[receipt_id], "") >>,
                  << >>)

\* faulty variant: the acknowledgement goes out as a NACK
AcknowledgeFrameAsNack(s, ack_id, up) == Send(s, FrameNack(ack_id), up)

AcknowledgeFrame(s, ack_id, up) == Send(s, FrameAck(ack_id), up)

NegativelyAcknowledgeFrame(s, ack_id, up) == Send(s, FrameNack(ack_id), up)

\* callback_result is what the subscription's handler returns for the frame
Dispatch(s, frame, callback_result, up) ==
  IF frame.command = "ERROR"
  THEN Outcome("", s, << Call("error", HandlerBox(-1, s.error_callback), "") >>, << >>)
  ELSE IF frame.command = "RECEIPT"
  THEN HandleReceipt(s, frame)
  ELSE
    LET sub_id == GetHeader(frame.headers, "subscription")
    IN IF sub_id = NoValue
       THEN Outcome("Frame did not contain a subscription header.", s, << >>, << >>)
       ELSE IF sub_id \notin DOMAIN s.subscriptions
       THEN Outcome("Received a message for an unknown subscription.", s, << >>, << >>)
       ELSE
         LET subscription == s.subscriptions[sub_id]
             ack_mode     == subscription.ack_mode
             calls        == << Call("message", subscription.handler, callback_result) >>
             ack_id       == GetHeader(frame.headers, "ack")
         IN IF ack_mode = "Auto"
            THEN Outcome("", s, calls, << >>)
            ELSE IF ack_id = NoValue
            THEN Outcome("Message did not have an 'ack' header.", s, calls, << >>)
            ELSE
              LET out == IF callback_result = "Ack"
                         THEN AcknowledgeFrame(s, ack_id, up)
                         ELSE NegativelyAcknowledgeFrame(s, ack_id, up)
              IN Outcome(IF out.ok THEN "" ELSE "Could not acknowledge frame",
                         s, calls, << out >>)

\* ------------------------------------------------------------- reconnect
\* faulty variant: the stored headers are copied without dropping `receipt`
ResubscribeFrameKeepingReceipt(subscription) ==
  LET subscribe_frame == FrameSubscribe(subscription.id, subscription.destination,
                                        subscription.ack_mode)
  IN [subscribe_frame EXCEPT !.headers = @ \o subscription.headers]

\* the SUBSCRIBE frame reconnect() builds for one registry entry
ResubscribeFrame(subscription) ==
  LET subscribe_frame == FrameSubscribe(subscription.id, subscription.destination,
                                        subscription.ack_mode)
      concatenated    == subscribe_frame.headers \o subscription.headers
  IN [subscribe_frame EXCEPT
        !.headers = SelectSeq(concatenated, LAMBDA header : header[1] # "receipt")]

\* faulty variant: the receipt registry is put back as well
ReplaceSessionKeepingReceipts(old, session) ==
  [session EXCEPT !.subscriptions = old.subscriptions,
                  !.receipt_handlers = old.receipt_handlers]

\* lines 200-202: the whole session is replaced by the new one, and the old
\* subscription registry is put back into it
ReplaceSession(old, session) ==
  [session EXCEPT !.subscriptions = old.subscriptions]

\* faulty variant: reconnect() registers a send timeout of its own
SendTimeoutsRearmed(s, tx) == RegisterTxHeartbeatTimeout(s, tx)

\* lines 203-205: reconnect() registers the socket and the receive timeout
\* only; the pending send timeouts are the ones there were
SendTimeoutsAfterReconnect(s, tx) == tx

\* faulty variant: the frame buffer is not reset
ReconnectBeginKeepingBuffer(t) == ClearRxHeartbeatTimeout(t)

\* the part of reconnect() before its loop, lines 193-195
ReconnectBegin(t) ==
  LET cleared == ClearRxHeartbeatTimeout(t)
  IN [cleared EXCEPT !.s.frame_buffer = << >>]

\* ------------------------------------------------ builders (spec.md 4.7)
\* SubscriptionBuilder: with_receipt allocates a receipt id, stores the
\* handler and adds the receipt header; start() allocates the subscription
\* id, sends SUBSCRIBE and registers the subscription once it was sent.
SubscriptionBuilderStart(s, destination, ack_mode, with_receipt, up) ==
  LET r        == GenerateReceiptId(s)
      rid      == U32ToString(r.id)
      s1       == IF with_receipt
                  THEN [r.s EXCEPT !.receipt_handlers =
                          MapInsert(@, rid, HandlerBox(s.connection, rid))]
                  ELSE s
      headers  == IF with_receipt THEN << Header("receipt", rid) >> ELSE << >>
      g        == GenerateSubscriptionId(s1)
      id       == U32ToString(g.id)
      sub      == [ id |-> id, destination |-> destination, ack_mode |-> ack_mode,
                    headers |-> headers, handler |-> HandlerBox(s.connection, id) ]
      plain    == FrameSubscribe(id, destination, ack_mode)
      out      == Send(g.s, [plain EXCEPT !.headers = @ \o headers], up)
  IN [ s   |-> IF out.ok
               THEN [g.s EXCEPT !.subscriptions = MapInsert(@, id, sub)]
               ELSE g.s,
       out |-> out ]

\* MessageBuilder: with_receipt as above; send() sends the SEND frame.
MessageBuilderSend(s, destination, with_receipt, up) ==
  LET r       == GenerateReceiptId(s)
      rid     == U32ToString(r.id)
      s1      == IF with_receipt
                 THEN [r.s EXCEPT !.receipt_handlers =
                         MapInsert(@, rid, HandlerBox(s.connection, rid))]
                 ELSE s
      plain   == FrameSend(destination)
      frame   == IF with_receipt
                 THEN [plain EXCEPT !.headers = Append(@, Header("receipt", rid))]
                 ELSE plain
  IN [ s |-> s1, out |-> Send(s1, frame, up) ]

\* ------------------------------------------------------ Session operations
\* faulty variant: the entry is removed only once UNSUBSCRIBE was written
UnsubscribeWhenSent(s, sub_id, up) ==
  [ s   |-> IF up THEN [s EXCEPT !.subscriptions = MapRemove(@, sub_id)] ELSE s,
    out |-> Send(s, FrameUnsubscribe(sub_id), up) ]

Unsubscribe(s, sub_id, up) ==
  [ s   |-> [s EXCEPT !.subscriptions = MapRemove(@, sub_id)],
    out |-> Send(s, FrameUnsubscribe(sub_id), up) ]

\* faulty variant: disconnect() also drops the subscriptions
DisconnectDroppingSubscriptions(s, up) ==
  [ s   |-> [s EXCEPT !.subscriptions = EmptyMap],
    out |-> Send(s, FrameDisconnect, up) ]

Disconnect(s, up) == [ s |-> s, out |-> Send(s, FrameDisconnect, up) ]

\* Transaction::begin sends BEGIN with the generated id
BeginTransaction(s, up) ==
  LET g == GenerateTransactionId(s)
  IN [ s |-> g.s, out |-> Send(g.s, FrameBegin(U32ToString(g.id)), up) ]

\* ---------------------------------------------------------------- history
Last(op, frame, calls, hook, result) ==
  [op |-> op, frame |-> frame, calls |-> calls, hook |-> hook, result |-> result]

NoLast == Last("", NoFrame, << >>, 0, "")

RECURSIVE WireLiveAfter(_, _)
WireLiveAfter(live, frames) ==
  IF frames = << >> THEN live
  ELSE LET f  == Head(frames)
           id == GetHeader(f.headers, "id")
       IN WireLiveAfter(
            IF f.command = "SUBSCRIBE" THEN live \cup {id}
            ELSE IF f.command = "UNSUBSCRIBE" THEN live \ {id}
            ELSE live,
            Tail(frames))

RECURSIVE FiredAfter(_, _)
FiredAfter(f, calls) ==
  IF calls = << >> THEN f
  ELSE LET c == Head(calls)
           n == IF c.handler \in DOMAIN f THEN f[c.handler] ELSE 0
       IN FiredAfter(IF c.kind = "receipt" THEN MapInsert(f, c.handler, n + 1) ELSE f,
                     Tail(calls))

\* the last id of each namespace after the session went from s to t
LastIdAfter(ids, s, t) ==
  [ transaction  |-> IF t.next_transaction_id # s.next_transaction_id
                     THEN s.next_transaction_id ELSE ids.transaction,
    subscription |-> IF t.next_subscription_id # s.next_subscription_id
                     THEN s.next_subscription_id ELSE ids.subscription,
    receipt      |-> IF t.next_receipt_id # s.next_receipt_id
                     THEN s.next_receipt_id ELSE ids.receipt ]

\* ------------------------------------------------------------------ input
\* the ids inbound frames and unsubscribe calls name
SubscriptionIds == { "0", "1" }
ReceiptIds == { "0" }

InboundFrames ==
  { Frame("ERROR", << >>) }
  \cup { Frame("RECEIPT", << >>) }
  \cup { Frame("RECEIPT", << Header("receipt-id", id) >>) : id \in ReceiptIds }
  \cup { Frame("MESSAGE", << >>) }
  \cup { Frame("MESSAGE", << Header("subscription", id) >>) : id \in SubscriptionIds }
  \cup { Frame("MESSAGE", << Header("subscription", id), Header("ack", "a1") >>) :
           id \in SubscriptionIds }

Transmissions ==
  { Transmission("HeartBeat", NoFrame), Transmission("ConnectionClosed", NoFrame) }
  \cup { Transmission("CompleteFrame", f) : f \in InboundFrames }

RECURSIVE SeqsUpTo(_, _)
SeqsUpTo(S, n) ==
  IF n = 0 THEN { << >> }
  ELSE LET shorter == SeqsUpTo(S, n - 1)
       IN shorter \cup { Append(q, x) : q \in shorter, x \in S }

\* bytes that arrived behind a ConnectionClosed in the same read
ClosedThenMore ==
  { << Transmission("ConnectionClosed", NoFrame), t >> :
      t \in { Transmission("HeartBeat", NoFrame),
              Transmission("CompleteFrame", Frame("ERROR", << >>)) } }

\* what one read can bring: at least one transmission
Reads == (SeqsUpTo(Transmissions, MaxRead) \ { << >> }) \cup ClosedThenMore

\* ------------------------------------------------------------------- Init
\* the clock at construction: time 0, no send timeout due, no heartbeat byte
\* written; tx is the interval Session::new was given
ClockStart(tx_heartbeat_ms) ==
  [now |-> 0, due |-> {}, beats |-> 0, tx |-> tx_heartbeat_ms]

InitWith(intervals) ==
  /\ \E hb \in intervals :
       /\ self = SessionBuilderStart(0, hb[1], hb[2])
       /\ clock = ClockStart(hb[1])
  /\ alive = TRUE
  /\ registered = -1
  /\ listening = FALSE
  /\ txTimers = 0
  /\ rxTimers = {}
  /\ pc = "idle"
  /\ panic = ""
  /\ returnTo = "idle"
  /\ attempts = 0
  /\ slept = 0
  /\ replayQueue = {}
  /\ wire = << >>
  /\ last = NoLast
  /\ pre = << >>
  /\ wireLive = {}
  /\ apiLive = {}
  /\ fired = EmptyMap
  /\ lastId = [transaction |-> -1, subscription |-> -1, receipt |-> -1]
  /\ ops = 0

Init == InitWith(HeartbeatMs)

reactorVars == << registered, listening, txTimers, rxTimers >>
loopVars == << returnTo, attempts, slept, replayQueue >>

Idle == pc = "idle" /\ panic = ""

\* the user makes one more call
UserCall == ops < MaxOps /\ ops' = ops + 1

\* the caller's side of an operation that ends in one send()
ApiStep(op, r) ==
  /\ UserCall
  /\ self' = r.s
  /\ wire' = Written(r.out)
  /\ last' = Last(op, NoFrame, << >>, r.out.hook, r.out.result)
  /\ wireLive' = WireLiveAfter(wireLive, Written(r.out))
  /\ lastId' = LastIdAfter(lastId, self, r.s)
  /\ pre' = << >>
  /\ UNCHANGED << alive, reactorVars, pc, panic, loopVars, fired >>
  /\ UNCHANGED clock

\* ---------------------------------------------------------- user actions
OnError ==
  /\ Idle
  /\ UserCall
  /\ self.error_callback # "user"
  /\ self' = [self EXCEPT !.error_callback = "user"]
  /\ last' = Last("on_error", NoFrame, << >>, 0, "")
  /\ wire' = << >>
  /\ pre' = << >>
  /\ UNCHANGED << alive, reactorVars, pc, panic, loopVars, wireLive, apiLive,
                  fired, lastId >>
  /\ UNCHANGED clock

OnBeforeSend ==
  /\ Idle
  /\ UserCall
  /\ self.frame_send_callback # "user"
  /\ self' = [self EXCEPT !.frame_send_callback = "user"]
  /\ last' = Last("on_before_send", NoFrame, << >>, 0, "")
  /\ wire' = << >>
  /\ pre' = << >>
  /\ UNCHANGED << alive, reactorVars, pc, panic, loopVars, wireLive, apiLive,
                  fired, lastId >>
  /\ UNCHANGED clock

OnBeforeReceive ==
  /\ Idle
  /\ UserCall
  /\ self.frame_receive_callback # "user"
  /\ self' = [self EXCEPT !.frame_receive_callback = "user"]
  /\ last' = Last("on_before_receive", NoFrame, << >>, 0, "")
  /\ wire' = << >>
  /\ pre' = << >>
  /\ UNCHANGED << alive, reactorVars, pc, panic, loopVars, wireLive, apiLive,
                  fired, lastId >>
  /\ UNCHANGED clock

SubscriptionStart ==
  /\ Idle
  /\ \E request \in SubscriptionRequests :
       /\ LET r == SubscriptionBuilderStart(self, request[1], request[2],
                                            request[3], alive)
          IN /\ ApiStep("subscribe", r)
             /\ apiLive' = WireLiveAfter(apiLive, Written(r.out))

MessageSend ==
  /\ Idle
  /\ \E with_receipt \in BOOLEAN :
       ApiStep("send", MessageBuilderSend(self, "/q/x", with_receipt, alive))
  /\ UNCHANGED apiLive

UnsubscribeCall ==
  /\ Idle
  /\ \E sub_id \in SubscriptionIds :
       /\ ApiStep("unsubscribe", Unsubscribe(self, sub_id, alive))
       /\ apiLive' = apiLive \ {sub_id}

DisconnectCall ==
  /\ Idle
  /\ ApiStep("disconnect", Disconnect(self, alive))
  /\ UNCHANGED apiLive

BeginTransactionCall ==
  /\ Idle
  /\ ApiStep("begin_transaction", BeginTransaction(self, alive))
  /\ UNCHANGED apiLive

\* listen(): register the socket and both timers, enter the event loop
ListenStep ==
  /\ Idle
  /\ ~listening
  /\ listening' = TRUE
  /\ registered' = self.connection
  /\ txTimers' = RegisterTxHeartbeatTimeout(self, txTimers)
  /\ LET t == RegisterRxHeartbeatTimeout(TimerState(self, rxTimers))
     IN self' = t.s /\ rxTimers' = t.rx
  /\ last' = Last("listen", NoFrame, << >>, 0, "")
  /\ wire' = << >>
  /\ pre' = << >>
  /\ UNCHANGED << alive, pc, panic, loopVars, wireLive, apiLive, fired, lastId, ops >>

Listen == ListenStep /\ UNCHANGED clock

\* -------------------------------------------------------- reactor events
\* reconnect() up to its loop; ret is where the call returns to
EnterReconnect(s, ret) ==
  /\ LET t == ReconnectBegin(TimerState(s, rxTimers))
     IN self' = t.s /\ rxTimers' = t.rx
  /\ registered' = -1
  /\ pc' = "reconnect"
  /\ returnTo' = ret
  /\ attempts' = 0
  /\ slept' = 0
  /\ pre' = << self >>
  /\ wire' = << >>
  /\ UNCHANGED << alive, listening, txTimers, panic, replayQueue, wireLive,
                  apiLive, fired, lastId, ops >>
  /\ UNCHANGED clock

\* readable(): the read returns Ok(0) or Err
ReadableClosed ==
  /\ Idle /\ listening /\ registered = self.connection
  /\ ~alive
  /\ self.connection < MaxConn
  /\ EnterReconnect(self, "idle")
  /\ last' = Last("readable", NoFrame, << >>, 0, "")

\* readable(): the read returns bytes, appended to the frame buffer
ReadableData ==
  /\ Idle /\ listening /\ registered = self.connection
  /\ alive
  /\ \E data \in Reads : self' = [self EXCEPT !.frame_buffer = @ \o data]
  /\ pc' = "drain"
  /\ last' = Last("readable", NoFrame, << >>, 0, "")
  /\ wire' = << >>
  /\ pre' = << >>
  /\ UNCHANGED << alive, reactorVars, panic, loopVars, wireLive, apiLive,
                  fired, lastId, ops >>
  /\ UNCHANGED clock

Draining == pc = "drain" /\ panic = ""

\* read_transmission() gives None: the loop breaks
DrainNone ==
  /\ Draining
  /\ self.frame_buffer = << >>
  /\ pc' = "idle"
  /\ last' = Last("drained", NoFrame, << >>, 0, "")
  /\ wire' = << >>
  /\ pre' = << >>
  /\ UNCHANGED << self, alive, reactorVars, panic, loopVars, wireLive, apiLive,
                  fired, lastId, ops >>
  /\ UNCHANGED clock

\* Some(HeartBeat) => on_heartbeat
DrainHeartBeat ==
  /\ Draining
  /\ self.frame_buffer # << >>
  /\ Head(self.frame_buffer).kind = "HeartBeat"
  /\ LET popped == [self EXCEPT !.frame_buffer = Tail(@)]
         t      == ResetRxHeartbeatTimeout(TimerState(popped, rxTimers))
     IN self' = t.s /\ rxTimers' = t.rx
  /\ last' = Last("heartbeat", NoFrame, << >>, 0, "")
  /\ wire' = << >>
  /\ pre' = << >>
  /\ UNCHANGED << alive, registered, listening, txTimers, pc, panic, loopVars,
                  wireLive, apiLive, fired, lastId, ops >>
  /\ UNCHANGED clock

\* Some(CompleteFrame(frame)): reset the watchdog, pre-receive hook, dispatch
DrainFrame ==
  /\ Draining
  /\ self.frame_buffer # << >>
  /\ Head(self.frame_buffer).kind = "CompleteFrame"
  /\ \E callback_result \in AckOrNack :
       LET popped == [self EXCEPT !.frame_buffer = Tail(@)]
           t      == ResetRxHeartbeatTimeout(TimerState(popped, rxTimers))
           frame  == ApplyHook(t.s.frame_receive_callback, Head(self.frame_buffer).frame)
           o      == Dispatch(t.s, frame, callback_result, alive)
           sent   == IF o.sends = << >> THEN << >> ELSE Written(o.sends[1])
       IN /\ self' = o.s
          /\ rxTimers' = t.rx
          /\ wire' = sent
          /\ wireLive' = WireLiveAfter(wireLive, sent)
          /\ fired' = FiredAfter(fired, o.calls)
          /\ last' = Last("dispatch", frame, o.calls, Len(o.sends),
                          IF o.sends = << >> THEN "" ELSE o.sends[1].result)
          /\ panic' = o.panic
          /\ pc' = IF o.panic = "" THEN "drain" ELSE "panicked"
  /\ pre' = << >>
  /\ UNCHANGED << alive, registered, listening, txTimers, loopVars, apiLive, lastId, ops >>
  /\ UNCHANGED clock

\* Some(ConnectionClosed) => reconnect, and the loop goes on
DrainConnectionClosed ==
  /\ Draining
  /\ self.frame_buffer # << >>
  /\ Head(self.frame_buffer).kind = "ConnectionClosed"
  /\ self.connection < MaxConn
  /\ EnterReconnect([self EXCEPT !.frame_buffer = Tail(@)], "drain")
  /\ last' = Last("connection_closed", NoFrame, << >>, 0, "")

\* one round of reconnect()'s loop in which start() fails: sleep, retry
ConnectFail ==
  /\ pc = "reconnect" /\ panic = ""
  /\ attempts < MaxAttempts
  /\ attempts' = attempts + 1
  /\ slept' = slept + DelayBetweenAttempts
  /\ last' = Last("connect_failed", NoFrame, << >>, 0, "")
  /\ UNCHANGED << self, alive, reactorVars, pc, panic, returnTo, replayQueue,
                  wire, pre, wireLive, apiLive, fired, lastId, ops >>
  /\ UNCHANGED clock

\* the round in which start() succeeds, up to the `for subscribe_frame` loop
ConnectOk ==
  /\ pc = "reconnect" /\ panic = ""
  /\ \E hb \in HeartbeatMs :
       LET session == SessionBuilderStart(self.connection + 1, hb[1], hb[2])
           s1      == ReplaceSession(self, session)
           t       == ResetRxHeartbeatTimeout(
                        RegisterRxHeartbeatTimeout(TimerState(s1, rxTimers)))
           frames  == { ResubscribeFrame(s1.subscriptions[k]) :
                          k \in DOMAIN s1.subscriptions }
       IN /\ self' = t.s
          /\ rxTimers' = t.rx
          /\ registered' = s1.connection
          /\ txTimers' = SendTimeoutsAfterReconnect(s1, txTimers)
          /\ replayQueue' = frames
          /\ pc' = IF frames = {} THEN returnTo ELSE "replay"
          /\ last' = Last(IF frames = {} THEN "reconnect" ELSE "connected",
                          NoFrame, << >>, 0, "")
          /\ clock' = [clock EXCEPT !.tx = hb[1]]
  /\ alive' = TRUE
  /\ wire' = << >>
  /\ UNCHANGED << listening, panic, returnTo, attempts, slept, pre,
                  wireLive, apiLive, fired, lastId, ops >>

\* one round of `for subscribe_frame in frames`: send, or panic
ReplayStep ==
  /\ pc = "replay" /\ panic = ""
  /\ \E subscribe_frame \in replayQueue :
       LET out  == Send(self, subscribe_frame, alive)
           rest == replayQueue \ {subscribe_frame}
       IN /\ replayQueue' = rest
          /\ wire' = wire \o Written(out)
          /\ wireLive' = WireLiveAfter(wireLive, Written(out))
          /\ panic' = IF out.ok THEN "" ELSE "Couldn't re-subscribe."
          /\ pc' = IF ~out.ok THEN "panicked"
                   ELSE IF rest = {} THEN returnTo ELSE "replay"
          /\ last' = Last(IF out.ok /\ rest = {} THEN "reconnect" ELSE "replay",
                          out.frame, << >>, out.hook, out.result)
  /\ UNCHANGED << self, alive, reactorVars, returnTo, attempts, slept, pre,
                  apiLive, fired, lastId, ops >>
  /\ UNCHANGED clock

\* timeout(SendHeartBeat) => send_heartbeat
SendHeartBeatStep ==
  /\ Idle /\ listening
  /\ txTimers > 0
  /\ IF alive
     THEN /\ wire' = << HeartBeatByte >>
          /\ txTimers' = RegisterTxHeartbeatTimeout(self, txTimers - 1)
          /\ UNCHANGED << pc, panic >>
     ELSE /\ wire' = << >>
          /\ txTimers' = txTimers - 1
          /\ panic' = "Could not send a heartbeat. Connection failed."
          /\ pc' = "panicked"
  /\ last' = Last("send_heartbeat", NoFrame, << >>, 0, "")
  /\ pre' = << >>
  /\ UNCHANGED << self, alive, registered, listening, rxTimers, loopVars,
                  wireLive, apiLive, fired, lastId, ops >>

TimeoutSendHeartBeat == SendHeartBeatStep /\ UNCHANGED clock

\* timeout(ReceiveHeartBeat): only logs
TimeoutReceiveHeartBeat ==
  /\ Idle /\ listening
  /\ \E h \in rxTimers : rxTimers' = rxTimers \ {h}
  /\ last' = Last("receive_heartbeat_timeout", NoFrame, << >>, 0, "")
  /\ wire' = << >>
  /\ pre' = << >>
  /\ UNCHANGED << self, alive, registered, listening, txTimers, pc, panic,
                  loopVars, wireLive, apiLive, fired, lastId, ops >>
  /\ UNCHANGED clock

\* the remote end goes away; this can happen at any point of any callback
SocketDies ==
  /\ panic = ""
  /\ alive
  /\ alive' = FALSE
  /\ UNCHANGED << self, reactorVars, pc, panic, loopVars, wire, last, pre,
                  wireLive, apiLive, fired, lastId, ops, clock >>

Next ==
  \/ OnError
  \/ OnBeforeSend
  \/ OnBeforeReceive
  \/ SubscriptionStart
  \/ MessageSend
  \/ UnsubscribeCall
  \/ DisconnectCall
  \/ BeginTransactionCall
  \/ Listen
  \/ ReadableClosed
  \/ ReadableData
  \/ DrainNone
  \/ DrainHeartBeat
  \/ DrainFrame
  \/ DrainConnectionClosed
  \/ ConnectFail
  \/ ConnectOk
  \/ ReplayStep
  \/ TimeoutSendHeartBeat
  \/ TimeoutReceiveHeartBeat
  \/ SocketDies

Spec == Init /\ [][Next]_vars

\* ------------------------------------------------- the send timer on a clock
\* The timed specification runs one connection on a clock that counts the ms
\* since listen(): a timeout registered at time t for d ms is due at t + d,
\* and the clock does not pass a due timeout before its callback ran.
ClockHeartbeatMs == { << tx, 0 >> : tx \in 0..MaxTx }

InitClock == InitWith(ClockHeartbeatMs)

\* event_loop.timeout_ms(SendHeartBeat, tx_heartbeat_ms) at the clock's time
TimeoutMs(s, c) ==
  IF s.tx_heartbeat_ms <= 0 THEN c.due ELSE c.due \cup { c.now + s.tx_heartbeat_ms }

ClockListen ==
  /\ ListenStep
  /\ clock' = [clock EXCEPT !.due = TimeoutMs(self, clock)]

\* one ms passes in event_loop.run
ClockTick ==
  /\ Idle /\ listening
  /\ clock.now < MaxClock
  /\ \A d \in clock.due : d > clock.now
  /\ clock' = [clock EXCEPT !.now = @ + 1]
  /\ UNCHANGED << self, alive, reactorVars, pc, panic, loopVars, wire, last, pre,
                  wireLive, apiLive, fired, lastId, ops >>

\* the due SendHeartBeat timeout fires
ClockSendHeartBeat ==
  /\ SendHeartBeatStep
  /\ \E d \in clock.due :
       /\ d <= clock.now
       /\ LET fired_ == [clock EXCEPT !.due = @ \ {d}]
          IN clock' = IF alive
                      THEN [fired_ EXCEPT !.beats = @ + 1,
                                          !.due = TimeoutMs(self, fired_)]
                      ELSE fired_

NextClock ==
  \/ ClockListen
  \/ ClockTick
  \/ ClockSendHeartBeat
  \/ SocketDies
  \/ MessageSend
  \/ DisconnectCall

SpecClock == InitClock /\ [][NextClock]_vars

\* ------------------------------------------------------------- progress
\* reconnect()'s loops run on: a connect attempt that can succeed is made,
\* and the `for subscribe_frame` loop takes its next round
SpecLive == Spec /\ WF_vars(ConnectOk) /\ WF_vars(ReplayStep)

\* ========================================================== properties
\* outstanding_receipts(): the keys of the receipt registry
OutstandingReceipts(s) == DOMAIN s.receipt_handlers

\* reconnect() has just returned; pre holds the session it started from
Reconnected == last.op = "reconnect" /\ pre # << >>

\* the frame DrainFrame hands to dispatch
DispatchedFrame ==
  ApplyHook(self.frame_receive_callback, Head(self.frame_buffer).frame)

\* the SUBSCRIBE frames on the wire for one registry entry
ReplayedFor(subscription) ==
  { i \in 1..Len(wire) :
      /\ wire[i].command = "SUBSCRIBE"
      /\ GetHeader(wire[i].headers, "id") = subscription.id
      /\ GetHeader(wire[i].headers, "destination") = subscription.destination
      /\ GetHeader(wire[i].headers, "ack") = AckModeText(subscription.ack_mode) }

\* C1: when reconnect() returns, the new connection has seen exactly one
\* SUBSCRIBE frame for each subscription registered before the failure (same
\* id, destination and ack mode) and nothing else, none of them with a
\* receipt header, and the registry has the keys it had before.
C1_ReconnectReplaysSubscriptions ==
  Reconnected =>
    LET before == pre[1].subscriptions
    IN /\ DOMAIN self.subscriptions = DOMAIN before
       /\ Len(wire) = Cardinality(DOMAIN before)
       /\ \A k \in DOMAIN before : Cardinality(ReplayedFor(before[k])) = 1
       /\ \A i \in 1..Len(wire) : ~HasHeader(wire[i].headers, "receipt")

C1_Witness ==
  /\ Reconnected
  /\ Cardinality(DOMAIN pre[1].subscriptions) = 2
  /\ \E k \in DOMAIN pre[1].subscriptions :
       HasHeader(pre[1].subscriptions[k].headers, "receipt")
  /\ Len(wire) = 2

\* C2 (as claimed): reconnect() leaves the three id counters and the three
\* user hooks as they were before the failure.
C2_ReconnectKeepsCountersAndHooks ==
  Reconnected =>
    /\ self.next_transaction_id = pre[1].next_transaction_id
    /\ self.next_subscription_id = pre[1].next_subscription_id
    /\ self.next_receipt_id = pre[1].next_receipt_id
    /\ self.error_callback = pre[1].error_callback
    /\ self.frame_send_callback = pre[1].frame_send_callback
    /\ self.frame_receive_callback = pre[1].frame_receive_callback

C5_ReceiptFiresOnce ==
  [][ /\ \A h \in DOMAIN fired' : fired'[h] <= 1
      /\ ( /\ DrainFrame
           /\ DispatchedFrame.command = "RECEIPT"
           /\ GetHeader(DispatchedFrame.headers, "receipt-id")
                \in OutstandingReceipts(self) )
         => LET id == GetHeader(DispatchedFrame.headers, "receipt-id")
            IN /\ self'.receipt_handlers = MapRemove(self.receipt_handlers, id)
               /\ id \notin OutstandingReceipts(self')
               /\ last'.frame = DispatchedFrame
               /\ last'.calls = << Call("receipt", self.receipt_handlers[id], "") >>
               /\ panic' = "" ]_vars

C5_Witness ==
  /\ last.op = "dispatch"
  /\ last.frame.command = "RECEIPT"
  /\ Len(last.calls) = 1
  /\ last.calls[1].handler.key = "0"
  /\ fired[last.calls[1].handler] = 1
  /\ OutstandingReceipts(self) = {"1"}

\* C6: a frame that is neither ERROR nor RECEIPT and names a registered
\* subscription invokes that subscription's handler once; in Auto mode no
\* frame is sent; in Client and ClientIndividual mode one frame is sent, ACK
\* when the handler returned Ack and NACK when it returned Nack, with the
\* inbound frame's ack header as id (and when the socket no longer takes the
\* write, nothing is written and the session dies).
C6_DispatchAcknowledges ==
  [][ ( /\ DrainFrame
        /\ DispatchedFrame.command \notin {"ERROR", "RECEIPT"}
        /\ GetHeader(DispatchedFrame.headers, "subscription") \in DOMAIN self.subscriptions )
      => LET sub_id       == GetHeader(DispatchedFrame.headers, "subscription")
             subscription == self.subscriptions[sub_id]
             ack_id       == GetHeader(DispatchedFrame.headers, "ack")
         IN /\ Len(last'.calls) = 1
            /\ last'.calls[1].kind = "message"
            /\ last'.calls[1].handler = subscription.handler
            /\ last'.frame = DispatchedFrame
            /\ subscription.ack_mode = "Auto" =>
                 /\ wire' = << >> /\ last'.hook = 0 /\ panic' = ""
            /\ (subscription.ack_mode # "Auto" /\ ack_id # NoValue) =>
                 /\ last'.hook = 1
                 /\ alive =>
                      /\ Len(wire') = 1
                      /\ wire'[1].command =
                           (IF last'.calls[1].returned = "Ack" THEN "ACK" ELSE "NACK")
                      /\ GetHeader(wire'[1].headers, "id") = ack_id
                      /\ panic' = ""
                 /\ ~alive =>
                      /\ wire' = << >>
                      /\ panic' = "Could not acknowledge frame" ]_vars

C6_Witness ==
  /\ last.op = "dispatch"
  /\ last.frame.command = "MESSAGE"
  /\ Len(last.calls) = 1
  /\ last.calls[1].returned = "Nack"
  /\ Len(wire) = 1
  /\ wire[1].command = "NACK"
  /\ GetHeader(wire[1].headers, "id") = "a1"
  /\ self.subscriptions["0"].ack_mode = "ClientIndividual"

\* the protocol violation a frame is for the session that dispatches it
Violation(s, frame) ==
  LET sub_id == GetHeader(frame.headers, "subscription")
  IN IF frame.command = "ERROR" THEN ""
     ELSE IF frame.command = "RECEIPT"
     THEN IF GetHeader(frame.headers, "receipt-id") = NoValue
          THEN "Received RECEIPT frame without a receipt-id"
          ELSE IF GetHeader(frame.headers, "receipt-id") \notin OutstandingReceipts(s)
          THEN "Received unexpected RECEIPT"
          ELSE ""
     ELSE IF sub_id = NoValue
     THEN "Frame did not contain a subscription header."
     ELSE IF sub_id \notin DOMAIN s.subscriptions
     THEN "Received a message for an unknown subscription."
     ELSE IF /\ s.subscriptions[sub_id].ack_mode # "Auto"
             /\ GetHeader(frame.headers, "ack") = NoValue
     THEN "Message did not have an 'ack' header."
     ELSE ""

\* C7: each protocol violation kills the session: it panics with the
\* violation's message, nothing is written for the frame, and a dead session
\* takes no further step; a frame without a subscription header raises the
\* missing-subscription violation without any handler being invoked, whether
\* or not it has an ack header.
C7_ProtocolViolationsAreFatal ==
  [][ /\ pc # "panicked"
      /\ (DrainFrame /\ Violation(self, DispatchedFrame) # "")
         => /\ pc' = "panicked"
            /\ panic' = Violation(self, DispatchedFrame)
            /\ wire' = << >>
            /\ self'.receipt_handlers = self.receipt_handlers
            /\ GetHeader(DispatchedFrame.headers, "subscription") = NoValue
                 => last'.calls = << >> ]_vars

C7_Witness ==
  /\ pc = "panicked"
  /\ panic = "Frame did not contain a subscription header."
  /\ last.op = "dispatch"
  /\ ~HasHeader(last.frame.headers, "ack")
  /\ last.calls = << >>
  /\ DOMAIN self.subscriptions # {}

\* C8 (as claimed): no transport error kills the session: a failed write in
\* the send-heartbeat callback or in reconnect()'s replay never panics.
C8_TransportErrorsNeverAbort ==
  panic \notin { "Could not send a heartbeat. Connection failed.",
                 "Couldn't re-subscribe." }

\* C9: send() runs the pre-send hook once on the frame and writes the hooked
\* frame; it returns ok when the write succeeds and connection-lost when it
\* fails; a failed send changes nothing of the session and starts no
\* reconnect; the readable event on the dead socket starts it.
C9_SendReportsConnectionLost ==
  [][ /\ DisconnectCall =>
           /\ last'.hook = 1
           /\ alive =>
                /\ last'.result = "ok"
                /\ wire' = << ApplyHook(self.frame_send_callback, FrameDisconnect) >>
           /\ ~alive =>
                /\ last'.result = "connection_lost"
                /\ wire' = << >>
           /\ self' = self
           /\ pc' = "idle"
           /\ registered' = registered
      /\ (ReadableClosed \/ ReadableData) =>
           (pc' = "reconnect" <=> ~alive) ]_vars

C9_Witness ==
  /\ last.op = "disconnect"
  /\ last.result = "connection_lost"
  /\ last.hook = 1
  /\ self.frame_send_callback = "user"
  /\ pc = "idle"

\* C10 (as claimed): an id a generator returns is greater than the last id it
\* returned, and a step that generates an id in one namespace leaves the
\* counters of the other namespaces unchanged unless it generates there too.
C10_IdsStrictlyIncrease ==
  [][ self'.connection = self.connection =>
        /\ self'.next_transaction_id # self.next_transaction_id
             => self.next_transaction_id > lastId.transaction
        /\ self'.next_subscription_id # self.next_subscription_id
             => self.next_subscription_id > lastId.subscription
        /\ self'.next_receipt_id # self.next_receipt_id
             => self.next_receipt_id > lastId.receipt ]_vars


\* C11: at most one receive-watchdog timeout is pending at any time, and right
\* after an inbound heartbeat or frame was processed exactly one is pending
\* when the session's rx interval is above 0 and none when it is 0; watchdog
\* firings and reconnects change nothing of that.
C11_OneReceiveWatchdog ==
  /\ Cardinality(rxTimers) <= 1
  /\ [][ /\ Cardinality(rxTimers') <= 1
         /\ (DrainHeartBeat \/ DrainFrame) =>
              Cardinality(rxTimers') = (IF self'.rx_heartbeat_ms > 0 THEN 1 ELSE 0) ]_vars

C11_Witness ==
  /\ last.op = "heartbeat"
  /\ self.connection = 1
  /\ self.rx_heartbeat_ms > 0
  /\ rxTimers = { self.rx_heartbeat_timeout }

\* no SendHeartBeat timeout is due and not yet served
Settled == \A d \in clock.due : d > clock.now

\* C12 (as claimed): with a negotiated tx interval T > 0 and a live socket,
\* k * (T / 2) ms after listen() exactly k heartbeat bytes have been written;
\* with T = 0 no send timeout is ever pending and no heartbeat byte is written.
C12_SendTimerEveryHalfInterval ==
  (listening /\ alive /\ panic = "" /\ Settled) =>
    IF clock.tx > 0
    THEN \A k \in 0..(2 * MaxClock) :
           2 * clock.now = k * clock.tx => clock.beats = k
    ELSE clock.due = {} /\ clock.beats = 0

\* C13: a receipt handler the session invokes was registered on the connection
\* the RECEIPT arrived on, never on an earlier one, also when the receipt id
\* was used before the reconnect; no handler of an earlier connection is
\* left in the receipt registry.
C13_NoStaleReceiptHandler ==
  /\ \A i \in 1..Len(last.calls) :
       last.calls[i].kind = "receipt" => last.calls[i].handler.conn = self.connection
  /\ \A id \in OutstandingReceipts(self) :
       self.receipt_handlers[id].conn = self.connection

C13_Witness ==
  /\ last.op = "dispatch"
  /\ last.calls = << Call("receipt", HandlerBox(1, "0"), "") >>
  /\ self.connection = 1
  /\ "0" \in DOMAIN self.subscriptions
  /\ self.subscriptions["0"].handler.conn = 0
  /\ GetHeader(self.subscriptions["0"].headers, "receipt") = "0"

\* C14 (as claimed): when reconnect() returns, a SendHeartBeat timeout is
\* pending exactly when the new tx interval is above 0 and a ReceiveHeartBeat
\* timeout is pending exactly when the new rx interval is above 0, whatever
\* the intervals of the connection before were.
C14_ReconnectRearmsBothTimers ==
  Reconnected =>
    /\ txTimers > 0 <=> self.tx_heartbeat_ms > 0
    /\ rxTimers # {} <=> self.rx_heartbeat_ms > 0

\* reconnect() is running
Reconnecting == pc \in {"reconnect", "replay"}

\* C15 (as claimed): reconnect() first deregisters the socket, clears the
\* receive watchdog and resets the frame buffer; it then tries the connection
\* factory again and again, sleeping the fixed delay after each failed
\* attempt and not after the successful one; no readable or timeout callback
\* runs while it runs; and once the factory succeeds it returns, with the new
\* socket registered.
C15_ReconnectRunsToCompletion ==
  /\ [][ /\ (ReadableClosed \/ DrainConnectionClosed) =>
              /\ registered' = -1
              /\ rxTimers' = {}
              /\ self'.frame_buffer = << >>
              /\ attempts' = 0 /\ slept' = 0
         /\ ConnectFail => slept' = slept + DelayBetweenAttempts /\ Reconnecting'
         /\ ConnectOk => slept' = slept /\ registered' = self'.connection
         /\ Reconnecting =>
              /\ slept = attempts * DelayBetweenAttempts
              /\ ~(ReadableClosed \/ ReadableData \/ DrainNone \/ DrainHeartBeat
                     \/ DrainFrame \/ DrainConnectionClosed
                     \/ TimeoutSendHeartBeat \/ TimeoutReceiveHeartBeat)
              /\ pc' \in {"reconnect", "replay", returnTo} ]_vars
  /\ (pc = "reconnect") ~> (~Reconnecting /\ pc # "panicked"
                              /\ registered = self.connection)

\* C16: a readable callback starts reconnect() at most once and does nothing
\* after it: from the start of reconnect() on the frame buffer holds nothing,
\* so when reconnect() returns into the read loop the loop finds no
\* transmission, dispatches no frame and ends; when the read itself returned
\* 0 or an error the callback returns right after reconnect().
C16_ReconnectEndsTheCallback ==
  [][ /\ ReadableClosed => returnTo' = "idle"
      /\ DrainConnectionClosed => returnTo' = "drain"
      /\ Reconnecting' => self'.frame_buffer = << >>
      /\ (Reconnecting /\ ~Reconnecting' /\ pc' # "panicked") =>
           /\ pc' = returnTo
           /\ self'.frame_buffer = << >>
      /\ (pc = "drain" /\ last.op = "reconnect") =>
           /\ ~(DrainFrame \/ DrainHeartBeat \/ DrainConnectionClosed)
           /\ pc' \in {"drain", "idle"}
           /\ pc' = "idle" => DrainNone ]_vars

C16_Witness ==
  /\ pc = "drain"
  /\ last.op = "reconnect"
  /\ pre # << >>
  /\ Len(pre[1].frame_buffer) = 2
  /\ Head(pre[1].frame_buffer).kind = "ConnectionClosed"
  /\ self.frame_buffer = << >>
  /\ DOMAIN self.subscriptions # {}

\* C17 (as claimed): the id generated for a new subscription, the counter as
\* a decimal string, is not a key of the subscription registry when the new
\* subscription is inserted: an insert never overwrites a live subscription.
C17_NewSubscriptionIdIsFree ==
  [][ (SubscriptionStart /\ alive) =>
        /\ U32ToString(self.next_subscription_id) \notin DOMAIN self.subscriptions
        /\ Cardinality(DOMAIN self'.subscriptions)
             = Cardinality(DOMAIN self.subscriptions) + 1 ]_vars

\* C18: at most one SendHeartBeat timeout is pending at any time, whatever
\* the number of firings and reconnects: there is one chain of send timeouts,
\* the one listen() started.
C18_OneSendTimer == txTimers <= 1

C18_Witness ==
  /\ last.op = "send_heartbeat"
  /\ self.connection = 1
  /\ panic = ""
  /\ txTimers = 1

\* C19: disconnect() writes at most the DISCONNECT frame and leaves the
\* reactor registration, both heartbeat timers and the subscription registry
\* as they are; when the peer then closes the socket, the next readable event
\* starts reconnect() with the registry intact, listen() goes on, and the
\* reconnect replays one SUBSCRIBE for every registered subscription.
C19_DisconnectOnlySendsFrame ==
  [][ /\ DisconnectCall =>
           /\ registered' = registered /\ listening' = listening
           /\ txTimers' = txTimers /\ rxTimers' = rxTimers
           /\ self'.subscriptions = self.subscriptions
           /\ pc' = "idle"
           /\ \A i \in 1..Len(wire') : wire'[i].command = "DISCONNECT"
      /\ (last.op = "disconnect" /\ (ReadableClosed \/ ReadableData)) =>
           /\ ~alive => ReadableClosed
           /\ ReadableClosed =>
                /\ pc' = "reconnect"
                /\ listening'
                /\ self'.subscriptions = self.subscriptions
      /\ (Reconnecting /\ ~Reconnecting' /\ pc' # "panicked") =>
           /\ listening'
           /\ registered' = self'.connection
           /\ self'.subscriptions = pre[1].subscriptions
           /\ \A k \in DOMAIN self'.subscriptions :
                \E i \in 1..Len(wire') :
                  /\ wire'[i].command = "SUBSCRIBE"
                  /\ GetHeader(wire'[i].headers, "id") = k ]_vars

C19_Witness ==
  /\ last.op = "disconnect"
  /\ last.result = "ok"
  /\ ~alive
  /\ listening /\ registered = self.connection
  /\ txTimers = 1 /\ Cardinality(rxTimers) = 1
  /\ DOMAIN self.subscriptions # {}
  /\ pc = "idle"

\* C20: unsubscribe(id) takes the id out of the registry at once, whether
\* its UNSUBSCRIBE frame could be written or not; a MESSAGE naming an id that
\* is not registered, such as one the broker sent before it saw the
\* UNSUBSCRIBE, is not ignored: it kills the session, with no handler invoked.
C20_LateMessageAfterUnsubscribeIsFatal ==
  [][ /\ UnsubscribeCall =>
           /\ \A id \in apiLive \ apiLive' : id \notin DOMAIN self'.subscriptions
           /\ DOMAIN self'.subscriptions \subseteq DOMAIN self.subscriptions
           /\ alive =>
                \E id \in SubscriptionIds :
                  /\ wire' = << ApplyHook(self.frame_send_callback,
                                          FrameUnsubscribe(id)) >>
                  /\ id \notin DOMAIN self'.subscriptions
           /\ ~alive => wire' = << >> /\ last'.result = "connection_lost"
      /\ ( /\ DrainFrame
           /\ DispatchedFrame.command \notin {"ERROR", "RECEIPT"}
           /\ HasHeader(DispatchedFrame.headers, "subscription")
           /\ GetHeader(DispatchedFrame.headers, "subscription")
                \notin DOMAIN self.subscriptions )
         => /\ pc' = "panicked"
            /\ panic' = "Received a message for an unknown subscription."
            /\ last'.calls = << >>
            /\ wire' = << >> ]_vars

C20_Witness ==
  /\ pc = "panicked"
  /\ panic = "Received a message for an unknown subscription."
  /\ last.op = "dispatch"
  /\ GetHeader(last.frame.headers, "subscription") = "0"
  /\ self.connection = 0
  /\ lastId.subscription = 0
  /\ ops = 2
  /\ wireLive = {}
  /\ DOMAIN self.subscriptions = {}

====
